---- MODULE Spec2Model ----
(***************************************************************************)
(* Streaming chat consumer of the ARC chatbot front end.                   *)
(*                                                                         *)
(*   src/src/services/chatService.js  sendChatMessageStream                *)
(*   src/src/pages/ChatPage.jsx       ChatPage (handleSend, handleNewChat, *)
(*                                    loadConversation)                    *)
(*   src/src/pages/ChatPage.jsx       ChatPage, the variant that submits   *)
(*                                    through sendChatMessage (SpecPlain)  *)
(*   src/src/services/authService.js  AuthService, ProtectedRoute          *)
(*   src/src/App.jsx                  the routes of App (SpecRoute)        *)
(*                                                                         *)
(* Text is a sequence of one-character strings, so that split, slice,      *)
(* startsWith and replace are computed character by character as the       *)
(* JavaScript does.  A JavaScript null / undefined / '' is the empty       *)
(* sequence where only its truthiness is observed.                         *)
(***************************************************************************)
EXTENDS Integers, Sequences, FiniteSets, TLC

VARIABLES
    messages,        \* useState messages            ChatPage.jsx:16
    input,           \* useState input               ChatPage.jsx:24
    loading,         \* useState loading             ChatPage.jsx:25
    error,           \* useState error               ChatPage.jsx:26
    conversationId,  \* useState conversationId      ChatPage.jsx:27
    activeSubMenu,   \* useState activeSubMenu       ChatPage.jsx:33
    clock,           \* Date.now()                   ChatPage.jsx:159
    streams,         \* the calls of sendChatMessageStream, in submit order
    loads,           \* the loadConversation calls awaiting their fetch
    hist,            \* number of new chats and of history loads so far
    route            \* localStorage, Date.now() and the route that is shown

vars == <<messages, input, loading, error, conversationId, activeSubMenu,
          clock, streams, loads, hist, route>>

-----------------------------------------------------------------------------
(* Bounds *)

MaxStreams == 2
MaxLoads == 1
MaxResets == 1
MaxOps == 4       \* submits, new chats and history loads of one run

-----------------------------------------------------------------------------
(* Text constants of the source *)

Null == <<>>

DataPrefix == <<"d", "a", "t", "a", ":", " ">>
DoneTag == <<"[", "D", "O", "N", "E", "]">>
ErrorTag == <<"[", "E", "R", "R", "O", "R", "]">>
CitationsTag == <<"[", "C", "I", "T", "A", "T", "I", "O", "N", "S", "]">>
ConvIdTag == <<"[", "C", "O", "N", "V", "_", "I", "D", "]">>
JsonNull == <<"n", "u", "l", "l">>

SorryPrefix == <<"S", "o", "r", "r", "y", ",", " ", "I", " ", "e", "n", "c", "o", "u", "n", "t", "e", "r", "e", "d", " ", "a", "n", " ", "e", "r", "r", "o", "r", ":", " ">>
SorrySuffix == <<".", " ", "P", "l", "e", "a", "s", "e", " ", "t", "r", "y", " ", "a", "g", "a", "i", "n", ".">>
FailedResponseText == <<"F", "a", "i", "l", "e", "d", " ", "t", "o", " ", "g", "e", "t", " ", "r", "e", "s", "p", "o", "n", "s", "e", ".", " ", "P", "l", "e", "a", "s", "e", " ", "t", "r", "y", " ", "a", "g", "a", "i", "n", ".">>
FailedLoadText == <<"F", "a", "i", "l", "e", "d", " ", "t", "o", " ", "l", "o", "a", "d", " ", "c", "o", "n", "v", "e", "r", "s", "a", "t", "i", "o", "n">>
ApiErrorPrefix == <<"A", "P", "I", " ", "e", "r", "r", "o", "r", ":", " ">>
GreetingText == <<"H", "e", "l", "l", "o", "!", " ", "I", " ", "c", "a", "n", " ", "h", "e", "l", "p", " ", "y", "o", "u", " ", "s", "e", "a", "r", "c", "h", " ", "t", "h", "r", "o", "u", "g", "h", " ", "a", "c", "a", "d", "e", "m", "i", "c", " ", "r", "e", "s", "e", "a", "r", "c", "h", " ", "p", "a", "p", "e", "r", "s", ".", " ", "A", "s", "k", " ", "m", "e", " ", "a", "n", "y", "t", "h", "i", "n", "g", " ", "a", "b", "o", "u", "t", " ", "r", "e", "c", "e", "n", "t", " ", "s", "t", "u", "d", "i", "e", "s", ",", " ", "s", "p", "e", "c", "i", "f", "i", "c", " ", "m", "e", "t", "h", "o", "d", "o", "l", "o", "g", "i", "e", "s", ",", " ", "o", "r", " ", "k", "e", "y", " ", "f", "i", "n", "d", "i", "n", "g", "s", " ", "i", "n", " ", "y", "o", "u", "r", " ", "f", "i", "e", "l", "d", ".">>

Digits == {"0", "1", "2", "3", "4", "5", "6", "7", "8", "9"}

-----------------------------------------------------------------------------
(* String primitives of JavaScript, on sequences of characters *)

\* F(v), with v evaluated once and not again at every use of it in F
Strict(v, F(_)) == CHOOSE r \in {F(x) : x \in {v}} : TRUE

\* String.prototype.startsWith
StartsWith(t, p) ==
    /\ Len(t) >= Len(p)
    /\ SubSeq(t, 1, Len(p)) = p

\* String.prototype.slice(n), n >= 0
Slice(t, n) == SubSeq(t, n + 1, Len(t))

\* index of the first line feed of t, 0 when there is none
FirstLineFeed(t) ==
    IF \E i \in 1..Len(t) : t[i] = "\n"
    THEN CHOOSE i \in 1..Len(t) : t[i] = "\n" /\ \A j \in 1..(i - 1) : t[j] # "\n"
    ELSE 0

\* chunk.split('\n'): the pieces between line feeds, the last one included
RECURSIVE SplitLines(_)
SplitLines(t) ==
    LET rest(text) ==
            LET after(i) ==
                    IF i = 0 THEN <<text>>
                    ELSE <<SubSeq(text, 1, i - 1)>>
                             \o SplitLines(SubSeq(text, i + 1, Len(text)))
            IN Strict(FirstLineFeed(text), after)
    IN Strict(t, rest)

\* DecodeNewlines with the pattern /\\n/ (no g flag): the first escape only
RECURSIVE DecodeNewlinesOnce(_)
DecodeNewlinesOnce(t) ==
    IF t = <<>> THEN <<>>
    ELSE IF Len(t) >= 2 /\ t[1] = "\\" /\ t[2] = "n"
         THEN <<"\n">> \o SubSeq(t, 3, Len(t))
         ELSE <<t[1]>> \o DecodeNewlinesOnce(Tail(t))

\* data.replace(/\\n/g, '\n'): every backslash followed by n becomes a line feed
RECURSIVE DecodeNewlines(_)
DecodeNewlines(t) ==
    IF t = <<>> THEN <<>>
    ELSE IF Len(t) >= 2 /\ t[1] = "\\" /\ t[2] = "n"
         THEN <<"\n">> \o DecodeNewlines(SubSeq(t, 3, Len(t)))
         ELSE <<t[1]>> \o DecodeNewlines(Tail(t))

\* String.prototype.trim, for the blanks the model types
RECURSIVE Trim(_)
Trim(t) ==
    IF t = <<>> THEN <<>>
    ELSE IF Head(t) = " " THEN Trim(Tail(t))
    ELSE IF t[Len(t)] = " " THEN Trim(SubSeq(t, 1, Len(t) - 1))
    ELSE t

\* JSON.parse on the texts the model sends: an array of one-digit numbers
\* parses to the list of its items, null parses to null, the rest throws.
JsonIsArray(t) ==
    /\ Len(t) >= 2
    /\ t[1] = "["
    /\ t[Len(t)] = "]"
    /\ LET inner == SubSeq(t, 2, Len(t) - 1)
       IN \/ inner = <<>>
          \/ /\ Len(inner) % 2 = 1
             /\ \A i \in 1..Len(inner) :
                    IF i % 2 = 1 THEN inner[i] \in Digits ELSE inner[i] = ","

JsonArray(t) ==
    LET inner == SubSeq(t, 2, Len(t) - 1)
    IN [i \in 1..((Len(inner) + 1) \div 2) |-> inner[2 * i - 1]]

-----------------------------------------------------------------------------
(* sendChatMessageStream: the locals of one call and the lines of one read *)

\* An optional value: <<>> is null / undefined, <<v>> is the value v.
None == <<>>
Some(v) == <<v>>

\* let fullText = '', citations = [], convId = null; calls is the record of
\* the callbacks invoked so far, returned tells that the function returned.
NewDecoder ==
    [fullText |-> <<>>, citations |-> Some(<<>>), convId |-> Null,
     calls |-> <<>>, returned |-> FALSE]

ChunkCall(text, fullText, at) ==
    [cb |-> "onChunk", text |-> text, fullText |-> fullText,
     citations |-> None, convId |-> Null, at |-> at]

DoneCall(d, at) ==
    [cb |-> "onDone", text |-> <<>>, fullText |-> d.fullText,
     citations |-> d.citations, convId |-> d.convId, at |-> at]

ErrorCall(message, at) ==
    [cb |-> "onError", text |-> message, fullText |-> <<>>,
     citations |-> None, convId |-> Null, at |-> at]

\* ProcessLine with `fullText = decodedData` in place of `fullText += decodedData`
ProcessLineNoAccumulate(line, d, at) ==
    IF ~StartsWith(line, DataPrefix) THEN d
    ELSE LET data == Slice(line, 6)
         IN IF data = DoneTag
            THEN [d EXCEPT !.calls = Append(@, DoneCall(d, at)), !.returned = TRUE]
            ELSE IF StartsWith(data, ErrorTag)
            THEN [d EXCEPT !.calls = Append(@, ErrorCall(Slice(data, 8), at)),
                           !.returned = TRUE]
            ELSE IF StartsWith(data, CitationsTag)
            THEN LET citationsJson == Slice(data, 11)
                 IN IF JsonIsArray(citationsJson)
                    THEN [d EXCEPT !.citations = Some(JsonArray(citationsJson))]
                    ELSE IF citationsJson = JsonNull
                    THEN [d EXCEPT !.citations = None]
                    ELSE d
            ELSE IF StartsWith(data, ConvIdTag)
            THEN [d EXCEPT !.convId = Slice(data, 9)]
            ELSE LET decodedData == DecodeNewlines(data)
                 IN [d EXCEPT !.fullText = decodedData,
                              !.calls = Append(@, ChunkCall(decodedData, decodedData, at))]

\* ProcessLine without the try / catch around JSON.parse: the SyntaxError
\* reaches the catch of the function
ProcessLineThrowing(line, d, at) ==
    IF ~StartsWith(line, DataPrefix) THEN d
    ELSE LET data == Slice(line, 6)
         IN IF data = DoneTag
            THEN [d EXCEPT !.calls = Append(@, DoneCall(d, at)), !.returned = TRUE]
            ELSE IF StartsWith(data, ErrorTag)
            THEN [d EXCEPT !.calls = Append(@, ErrorCall(Slice(data, 8), at)),
                           !.returned = TRUE]
            ELSE IF StartsWith(data, CitationsTag)
            THEN LET citationsJson == Slice(data, 11)
                 IN IF JsonIsArray(citationsJson)
                    THEN [d EXCEPT !.citations = Some(JsonArray(citationsJson))]
                    ELSE IF citationsJson = JsonNull
                    THEN [d EXCEPT !.citations = None]
                    ELSE [d EXCEPT !.calls = Append(@, ErrorCall(citationsJson, at)),
                                   !.returned = TRUE]
            ELSE IF StartsWith(data, ConvIdTag)
            THEN [d EXCEPT !.convId = Slice(data, 9)]
            ELSE LET decodedData == DecodeNewlines(data)
                     fullText == d.fullText \o decodedData
                 IN [d EXCEPT !.fullText = fullText,
                              !.calls = Append(@, ChunkCall(decodedData, fullText, at))]

\* ProcessLine with `data.startsWith('[DONE]')` in place of `data === '[DONE]'`
ProcessLineDonePrefix(line, d, at) ==
    IF ~StartsWith(line, DataPrefix) THEN d
    ELSE LET data == Slice(line, 6)
         IN IF StartsWith(data, DoneTag)
            THEN [d EXCEPT !.calls = Append(@, DoneCall(d, at)), !.returned = TRUE]
            ELSE IF StartsWith(data, ErrorTag)
            THEN [d EXCEPT !.calls = Append(@, ErrorCall(Slice(data, 8), at)),
                           !.returned = TRUE]
            ELSE IF StartsWith(data, CitationsTag)
            THEN LET citationsJson == Slice(data, 11)
                 IN IF JsonIsArray(citationsJson)
                    THEN [d EXCEPT !.citations = Some(JsonArray(citationsJson))]
                    ELSE IF citationsJson = JsonNull
                    THEN [d EXCEPT !.citations = None]
                    ELSE d
            ELSE IF StartsWith(data, ConvIdTag)
            THEN [d EXCEPT !.convId = Slice(data, 9)]
            ELSE LET decodedData == DecodeNewlines(data)
                     fullText == d.fullText \o decodedData
                 IN [d EXCEPT !.fullText = fullText,
                              !.calls = Append(@, ChunkCall(decodedData, fullText, at))]

\* ProcessLine with `line.startsWith('data:')`, the blank not required
ProcessLineAnyPrefix(line, d, at) ==
    IF ~StartsWith(line, <<"d", "a", "t", "a", ":">>) THEN d
    ELSE LET data == Slice(line, 6)
         IN IF data = DoneTag
            THEN [d EXCEPT !.calls = Append(@, DoneCall(d, at)), !.returned = TRUE]
            ELSE IF StartsWith(data, ErrorTag)
            THEN [d EXCEPT !.calls = Append(@, ErrorCall(Slice(data, 8), at)),
                           !.returned = TRUE]
            ELSE IF StartsWith(data, CitationsTag)
            THEN LET citationsJson == Slice(data, 11)
                 IN IF JsonIsArray(citationsJson)
                    THEN [d EXCEPT !.citations = Some(JsonArray(citationsJson))]
                    ELSE IF citationsJson = JsonNull
                    THEN [d EXCEPT !.citations = None]
                    ELSE d
            ELSE IF StartsWith(data, ConvIdTag)
            THEN [d EXCEPT !.convId = Slice(data, 9)]
            ELSE LET decodedData == DecodeNewlines(data)
                     fullText == d.fullText \o decodedData
                 IN [d EXCEPT !.fullText = fullText,
                              !.calls = Append(@, ChunkCall(decodedData, fullText, at))]

\* ProcessLine with `citations = citations.concat(JSON.parse(citationsJson))`
ProcessLineConcat(line, d, at) ==
    IF ~StartsWith(line, DataPrefix) THEN d
    ELSE LET data == Slice(line, 6)
         IN IF data = DoneTag
            THEN [d EXCEPT !.calls = Append(@, DoneCall(d, at)), !.returned = TRUE]
            ELSE IF StartsWith(data, ErrorTag)
            THEN [d EXCEPT !.calls = Append(@, ErrorCall(Slice(data, 8), at)),
                           !.returned = TRUE]
            ELSE IF StartsWith(data, CitationsTag)
            THEN LET citationsJson == Slice(data, 11)
                 IN IF JsonIsArray(citationsJson)
                    THEN [d EXCEPT !.citations =
                              IF @ = None THEN Some(JsonArray(citationsJson))
                              ELSE Some(@[1] \o JsonArray(citationsJson))]
                    ELSE IF citationsJson = JsonNull
                    THEN [d EXCEPT !.citations = None]
                    ELSE d
            ELSE IF StartsWith(data, ConvIdTag)
            THEN [d EXCEPT !.convId = Slice(data, 9)]
            ELSE LET decodedData == DecodeNewlines(data)
                     fullText == d.fullText \o decodedData
                 IN [d EXCEPT !.fullText = fullText,
                              !.calls = Append(@, ChunkCall(decodedData, fullText, at))]

\* the body of `for (const line of lines)` for one line; at is the offset of
\* the line in the response body
ProcessLine(line, d, at) ==
    IF ~StartsWith(line, DataPrefix) THEN d
    ELSE LET data == Slice(line, 6)
         IN IF data = DoneTag
            THEN [d EXCEPT !.calls = Append(@, DoneCall(d, at)), !.returned = TRUE]
            ELSE IF StartsWith(data, ErrorTag)
            THEN [d EXCEPT !.calls = Append(@, ErrorCall(Slice(data, 8), at)),
                           !.returned = TRUE]
            ELSE IF StartsWith(data, CitationsTag)
            THEN LET citationsJson == Slice(data, 11)
                 IN IF JsonIsArray(citationsJson)
                    THEN [d EXCEPT !.citations = Some(JsonArray(citationsJson))]
                    ELSE IF citationsJson = JsonNull
                    THEN [d EXCEPT !.citations = None]
                    ELSE d
            ELSE IF StartsWith(data, ConvIdTag)
            THEN [d EXCEPT !.convId = Slice(data, 9)]
            ELSE LET decodedData == DecodeNewlines(data)
                     fullText == d.fullText \o decodedData
                 IN [d EXCEPT !.fullText = fullText,
                              !.calls = Append(@, ChunkCall(decodedData, fullText, at))]

\* ProcessLines without the `return` after [DONE] and [ERROR]
RECURSIVE ProcessLinesThrough(_, _, _)
ProcessLinesThrough(lines, d, at) ==
    IF lines = <<>> THEN d
    ELSE LET after(d2) == ProcessLinesThrough(Tail(lines), d2, at + Len(Head(lines)) + 1)
         IN Strict(ProcessLine(Head(lines), d, at), after)

\* the for loop over the lines of one read; a return leaves the loop
RECURSIVE ProcessLines(_, _, _)
ProcessLines(lines, d, at) ==
    IF lines = <<>> THEN d
    ELSE LET after(d2) ==
                 IF d2.returned THEN d2
                 ELSE ProcessLines(Tail(lines), d2, at + Len(Head(lines)) + 1)
         IN Strict(ProcessLine(Head(lines), d, at), after)

\* one iteration of `while (true)` whose read returned the text chunk
ProcessChunk(chunk, d, at) ==
    LET loop(lines) == ProcessLines(lines, d, at)
    IN Strict(SplitLines(chunk), loop)

-----------------------------------------------------------------------------
(* ChatPage: the messages and the callbacks handed to the stream *)

Greeting ==
    [id |-> 0, role |-> "assistant", content |-> GreetingText,
     isStreaming |-> FALSE, isError |-> FALSE, citations |-> None]

\* const userMessage = { role: 'user', content: userQuery, timestamp }
UserMessage(userQuery) ==
    [id |-> 0, role |-> "user", content |-> userQuery,
     isStreaming |-> FALSE, isError |-> FALSE, citations |-> None]

\* { id: streamingMessageId, role: 'assistant', content: '', isStreaming: true }
Placeholder(streamingMessageId) ==
    [id |-> streamingMessageId, role |-> "assistant", content |-> <<>>,
     isStreaming |-> TRUE, isError |-> FALSE, citations |-> None]

\* setMessages((prev) => [...prev, userMessage]) and
\* setMessages((prev) => [...prev, { id: streamingMessageId, ... }])
SubmitMessages(prev, userQuery, streamingMessageId) ==
    prev \o <<UserMessage(userQuery), Placeholder(streamingMessageId)>>

\* IsStreamingMessage that holds of every message: prev.map(change)
IsAnyMessage(msg, streamingMessageId) == TRUE

\* IsStreamingMessage that takes any assistant message for the placeholder
IsAssistantMessage(msg, streamingMessageId) == msg.role = "assistant"

\* msg.id === streamingMessageId
IsStreamingMessage(msg, streamingMessageId) == msg.id = streamingMessageId

\* prev.map((msg) => msg.id === streamingMessageId ? change(msg) : msg)
MapMessage(prev, streamingMessageId, change(_)) ==
    [k \in 1..Len(prev) |->
        IF IsStreamingMessage(prev[k], streamingMessageId)
        THEN change(prev[k]) ELSE prev[k]]

\* { ...msg, content: fullText }
ChunkMessage(msg, fullText) == [msg EXCEPT !.content = fullText]

\* DoneMessage without `isStreaming: false`
DoneMessageStreaming(msg, fullText, citations) ==
    [msg EXCEPT !.content = fullText,
                !.citations = IF citations = None THEN Some(<<>>) ELSE citations]

\* { ...msg, content: fullText, citations: citations || [], isStreaming: false }
DoneMessage(msg, fullText, citations) ==
    [msg EXCEPT !.content = fullText,
                !.citations = IF citations = None THEN Some(<<>>) ELSE citations,
                !.isStreaming = FALSE]

\* ErrorMessage without `isStreaming: false`
ErrorMessageStreaming(msg, message) ==
    [msg EXCEPT !.content = SorryPrefix \o message \o SorrySuffix,
                !.isError = TRUE]

\* { ...msg, content: `Sorry, ... ${err.message}. Please try again.`,
\*   isError: true, isStreaming: false }
ErrorMessage(msg, message) ==
    [msg EXCEPT !.content = SorryPrefix \o message \o SorrySuffix,
                !.isError = TRUE,
                !.isStreaming = FALSE]

\* The page state the callbacks write.
Page ==
    [messages |-> messages, conversationId |-> conversationId,
     loading |-> loading, error |-> error]

\* onChunk: (chunk, fullText) => setMessages(...)
onChunk(P, s, call) ==
    LET change(msg) == ChunkMessage(msg, call.fullText)
    IN [P EXCEPT !.messages = MapMessage(@, s.id, change)]

\* onDone: (fullText, citations, convId) => ...; conversationId is the value
\* the handleSend closure captured
onDone(P, s, call) ==
    LET change(msg) == DoneMessage(msg, call.fullText, call.citations)
    IN [P EXCEPT !.conversationId =
                     IF call.convId # Null /\ s.conversationId = Null
                     THEN call.convId ELSE @,
                 !.messages = MapMessage(@, s.id, change),
                 !.loading = FALSE]

\* onError: (err) => ...
onError(P, s, call) ==
    LET change(msg) == ErrorMessage(msg, call.text)
    IN [P EXCEPT !.error = IF call.text # <<>> THEN call.text
                           ELSE FailedResponseText,
                 !.messages = MapMessage(@, s.id, change),
                 !.loading = FALSE]

ApplyCall(P, s, call) ==
    IF call.cb = "onChunk" THEN onChunk(P, s, call)
    ELSE IF call.cb = "onDone" THEN onDone(P, s, call)
    ELSE onError(P, s, call)

\* the callbacks of one step of the stream, applied in the order of the calls
RECURSIVE ApplyCalls(_, _, _)
ApplyCalls(P, s, calls) ==
    IF calls = <<>> THEN P
    ELSE LET rest(P2) == ApplyCalls(P2, s, Tail(calls))
         IN Strict(ApplyCall(P, s, Head(calls)), rest)

-----------------------------------------------------------------------------
(* The chat backend: the lines it writes and the responses it gives *)

TextFrame(payload) ==
    [kind |-> "text", payload |-> payload, line |-> DataPrefix \o payload]
CitationsFrame(json) ==
    [kind |-> "citations", payload |-> json, line |-> DataPrefix \o CitationsTag \o json]
ConvIdFrame(id) ==
    [kind |-> "conv", payload |-> id, line |-> DataPrefix \o ConvIdTag \o id]
DoneFrame ==
    [kind |-> "done", payload |-> <<>>, line |-> DataPrefix \o DoneTag]
ErrorFrame(message) ==
    [kind |-> "error", payload |-> message,
     line |-> DataPrefix \o ErrorTag \o <<" ">> \o message]
\* an [ERROR] line whose message follows the sentinel at once
RawErrorFrame(message) ==
    [kind |-> "error", payload |-> message,
     line |-> DataPrefix \o ErrorTag \o message]
BlankFrame ==
    [kind |-> "blank", payload |-> <<>>, line |-> <<>>]
\* a line that is not a `data: ` line: a comment, another field, a line
\* whose prefix lacks the blank
OtherFrame(line) ==
    [kind |-> "other", payload |-> <<>>, line |-> line]

\* the bytes of a sequence of frames: every line is ended by a line feed
RECURSIVE Body(_)
Body(frames) ==
    IF frames = <<>> THEN <<>>
    ELSE Head(frames).line \o <<"\n">> \o Body(Tail(frames))

\* offset of the end of the k-th line
LineEnd(frames, k) == Len(Body(SubSeq(frames, 1, k)))

HelloFrames ==
    <<TextFrame(<<"H", "e", "l", "l", "o", " ">>), TextFrame(<<"w", "o", "r">>),
      ErrorFrame(<<"b", "o", "o", "m">>)>>

AnswerFrames ==
    <<ConvIdFrame(<<"a">>), TextFrame(<<"H", "i", "\\", "n">>),
      CitationsFrame(<<"[", "1", "]">>), TextFrame(<<"x">>), DoneFrame>>

TwoIdFrames ==
    <<CitationsFrame(<<"[", "2", "]">>), ConvIdFrame(<<"a">>), TextFrame(<<"y">>),
      ConvIdFrame(<<"b">>), DoneFrame>>

ShortFrames ==
    <<TextFrame(<<"H", "\\", "n">>), ConvIdFrame(<<"a">>), DoneFrame>>

OpenFrames ==
    <<TextFrame(<<"z">>), BlankFrame, CitationsFrame(<<"[", "3", "]">>)>>

TrailingFrames ==
    <<TextFrame(<<"y">>), DoneFrame, TextFrame(<<"t">>)>>

IdThenErrorFrames ==
    <<ConvIdFrame(<<"a">>), TextFrame(<<"y">>), ErrorFrame(<<"b", "o", "o", "m">>)>>

\* a citations payload that JSON.parse rejects, between two text deltas
MalformedFrames ==
    <<TextFrame(<<"y">>), CitationsFrame(<<"[", "x">>), TextFrame(<<"z">>), DoneFrame>>

TightErrorFrames ==
    <<TextFrame(<<"y">>), RawErrorFrame(<<"b", "o", "o", "m">>)>>

BareFrames ==
    <<TextFrame(<<"y">>), DoneFrame>>

\* a text delta that begins with the sentinel [DONE], and a line after [DONE]
DoneLikeFrames ==
    <<TextFrame(<<"[", "D", "O", "N", "E", "]", "x">>), TextFrame(<<"y">>),
      DoneFrame, TextFrame(<<"t">>)>>

\* lines after [ERROR]
ErrorThenTextFrames ==
    <<TextFrame(<<"y">>), ErrorFrame(<<"b", "o", "o", "m">>), TextFrame(<<"t">>),
      DoneFrame>>

\* keep-alive blanks, a comment and a line `data:[DONE]` among the frames
NoiseFrames ==
    <<TextFrame(<<"y">>), BlankFrame, OtherFrame(<<":", "k", "a">>),
      CitationsFrame(<<"[", "1", "]">>), ConvIdFrame(<<"a">>),
      OtherFrame(<<"d", "a", "t", "a", ":">> \o DoneTag), BlankFrame,
      TextFrame(<<"z">>), DoneFrame>>

\* two citation lists, then a payload that JSON.parse rejects
BatchesFrames ==
    <<CitationsFrame(<<"[", "1", ",", "2", "]">>), TextFrame(<<"y">>),
      CitationsFrame(<<"[", "3", "]">>), CitationsFrame(<<"[", "x">>), DoneFrame>>

\* a citation list, then the payload `null`, which JSON.parse accepts
NullBatchFrames ==
    <<CitationsFrame(<<"[", "1", "]">>), CitationsFrame(JsonNull), TextFrame(<<"y">>),
      DoneFrame>>

\* escapes in an identifier and in a text delta, which also holds a
\* backslash of its own
EscapedFrames ==
    <<ConvIdFrame(<<"a", "\\", "n">>),
      TextFrame(<<"a", "\\", "n", "b", "\\", "\\", "n", "c">>), DoneFrame>>

\* A response body and the offsets at which a read of it may end.
Response(frames, ends) ==
    [frames |-> frames, body |-> Body(frames),
     cuts |-> {LineEnd(frames, k) : k \in ends} \cup {Len(Body(frames))}]

\* the same body, cut by the transport at any offset
AnySplit(frames) ==
    [frames |-> frames, body |-> Body(frames), cuts |-> 1..Len(Body(frames))]

\* the same frames, a read ending after any line
AnyLines(frames) == Response(frames, 1..Len(frames))

\* The responses, by name.
ResponseNamed(name) ==
    CASE name = "answer" -> Response(AnswerFrames, {3})
      [] name = "open" -> Response(OpenFrames, {})
      [] name = "short" -> AnySplit(ShortFrames)
      [] name = "hello" -> AnySplit(HelloFrames)
      [] name = "answerLines" -> AnyLines(AnswerFrames)
      [] name = "twoIds" -> AnyLines(TwoIdFrames)
      [] name = "openLines" -> AnyLines(OpenFrames)
      [] name = "trailing" -> AnyLines(TrailingFrames)
      [] name = "idThenError" -> AnyLines(IdThenErrorFrames)
      [] name = "malformed" -> AnyLines(MalformedFrames)
      [] name = "tightError" -> AnyLines(TightErrorFrames)
      [] name = "bare" -> AnyLines(BareFrames)
      [] name = "escaped" -> AnyLines(EscapedFrames)
      [] name = "batches" -> AnyLines(BatchesFrames)
      [] name = "nullBatch" -> AnyLines(NullBatchFrames)
      [] name = "noise" -> AnyLines(NoiseFrames)
      [] name = "doneLike" -> AnyLines(DoneLikeFrames)
      [] name = "errorThenText" -> AnyLines(ErrorThenTextFrames)
      [] OTHER -> Response(<<>>, {})

\* responses of the page specification: reads end at the ends of lines
Responses == {"answer", "open"}

\* responses of the stream specification
StreamResponses ==
    {"short", "hello", "answerLines", "twoIds", "openLines", "trailing",
     "idThenError", "malformed", "tightError", "escaped", "doneLike",
     "errorThenText", "noise", "batches", "nullBatch"}

BodyOf(s) == ResponseNamed(s.response).body
CutsOf(s) == ResponseNamed(s.response).cuts
FramesOf(s) == ResponseNamed(s.response).frames

StatusText == <<"5", "0", "0">>
\* errorData.detail of a response that is not ok: absent, or a text
Details == {Null}
StreamDetails == {Null, <<"b", "u", "s", "y">>}
FetchErrorText == <<"F", "a", "i", "l", "e", "d", " ", "t", "o", " ", "f", "e", "t", "c", "h">>
ReadErrorText == <<"n", "e", "t", "w", "o", "r", "k", " ", "e", "r", "r", "o", "r">>

Queries == {<<"q">>}
Inputs == {<<>>, <<" ">>} \cup Queries
ConvIds == {<<"c", "1">>}

StoredMessage(role, content, citations) ==
    [role |-> role, content |-> content, citations |-> citations]

\* data.messages of the history endpoint: a stored conversation, or none
Histories ==
    { <<>>,
      <<StoredMessage("user", <<"q">>, None),
        StoredMessage("assistant", <<"A">>, Some(<<"1">>))>> }

-----------------------------------------------------------------------------
(* authService, ProtectedRoute and the routes of App *)

MaxSeconds == 3       \* the clock runs up to this many seconds
MsPerSecond == 1000   \* payload.exp * 1000

\* the groups that a Cognito user may be in
GroupSets == {{}, {"admin"}, {"researcher"}}

\* session.tokens?.idToken of fetchAuthSession: an id token with its exp
\* (seconds) and cognito:groups, or none
IdToken(exp, groups) == [readable |-> TRUE, exp |-> exp, groups |-> groups]

\* String(undefined): what localStorage keeps when the session has no id
\* token; atob of its second part throws
UndefinedToken == [readable |-> FALSE, exp |-> 0, groups |-> {}]

Sessions ==
    {Some(IdToken(exp, groups)) : exp \in 1..MaxSeconds, groups \in GroupSets}
        \cup {None}

Paths == {"/", "/login", "/chat", "/admin"}

\* localStorage without the keys of authService, the clock at 0, the home page
NewRoute ==
    [auth_token |-> None, user_groups |-> None, now |-> 0,
     path |-> "/", page |-> "HomePage"]

getAccessToken(r) == r.auth_token

\* isAuthenticated: no token -> false; a token that cannot be read -> false
\* (catch); else Date.now() < payload.exp * 1000
isAuthenticated(r) ==
    LET token == getAccessToken(r)
    IN IF token = None THEN FALSE
       ELSE IF ~token[1].readable THEN FALSE
       ELSE r.now < token[1].exp * MsPerSecond

\* isAdmin: JSON.parse(localStorage.getItem('user_groups') || '[]').includes('admin')
isAdmin(r) ==
    LET groups == IF r.user_groups = None THEN {} ELSE r.user_groups[1]
    IN "admin" \in groups

Navigate(to) == [navigate |-> to, render |-> ""]
Render(page) == [navigate |-> "", render |-> page]

\* ProtectedRoute without the test of requireAdmin
ProtectedRouteAnyUser(r, children, requireAdmin) ==
    IF ~isAuthenticated(r) THEN Navigate("/login")
    ELSE Render(children)

\* function ProtectedRoute({ children, requireAdmin = false })
ProtectedRoute(r, children, requireAdmin) ==
    IF ~isAuthenticated(r) THEN Navigate("/login")
    ELSE IF requireAdmin /\ ~isAdmin(r) THEN Navigate("/chat")
    ELSE Render(children)

\* <Routes> of App: the element of a path
RouteElement(r, path) ==
    CASE path = "/login" -> Render("LoginPage")
      [] path = "/chat" -> ProtectedRoute(r, "ChatPage", FALSE)
      [] path = "/admin" -> ProtectedRoute(r, "AdminPage", TRUE)
      [] OTHER -> Render("HomePage")

\* the route shown for a path, the redirections of <Navigate> followed
RECURSIVE Shown(_, _)
Shown(r, path) ==
    LET element == RouteElement(r, path)
    IN IF element.navigate # ""
       THEN Shown(r, element.navigate)
       ELSE [r EXCEPT !.path = path, !.page = element.render]

\* authService.logout: the four keys are removed, signOut failing or not
LoggedOut(r) == [r EXCEPT !.auth_token = None, !.user_groups = None]

\* authService.login after signIn succeeded: the token and the groups of its
\* payload are stored
LoggedIn(r, session) ==
    IF session = None
    THEN [r EXCEPT !.auth_token = Some(UndefinedToken), !.user_groups = Some({})]
    ELSE [r EXCEPT !.auth_token = session, !.user_groups = Some(session[1].groups)]

-----------------------------------------------------------------------------
(* State *)

NewStream(streamingMessageId, userQuery) ==
    [id |-> streamingMessageId, query |-> userQuery,
     conversationId |-> conversationId,
     pc |-> "fetch", response |-> "", read |-> 0,
     d |-> NewDecoder, failed |-> FALSE, wholeLines |-> TRUE,
     superseded |-> FALSE, stale |-> FALSE]

Init ==
    /\ messages = <<Greeting>>
    /\ input = <<>>
    /\ loading = FALSE
    /\ error = Null
    /\ conversationId = Null
    /\ activeSubMenu = "current"
    /\ clock = 0
    /\ streams = <<>>
    /\ loads = <<>>
    /\ hist = [resets |-> 0, loadsStarted |-> 0]
    /\ route = NewRoute

-----------------------------------------------------------------------------
(* User operations of ChatPage *)

\* number of user operations so far
Ops == Len(streams) + hist.resets + hist.loadsStarted

\* onChange of the input, which is disabled while loading; typing is
\* followed as long as the bounds leave a submit to make
SetInput(v) ==
    /\ ~loading
    /\ Len(streams) < MaxStreams
    /\ Ops < MaxOps
    /\ v # input
    /\ input' = v
    /\ UNCHANGED <<route, messages, loading, error, conversationId, activeSubMenu,
                   clock, streams, loads, hist>>

\* handleSend without the test of input.trim()
handleSendAnyInput ==
    /\ ~loading
    /\ Len(streams) < MaxStreams
    /\ Ops < MaxOps
    /\ LET streamingMessageId == clock + 1
       IN /\ messages' = SubmitMessages(messages, input, streamingMessageId)
          /\ clock' = streamingMessageId
          /\ streams' = Append(streams, NewStream(streamingMessageId, input))
    /\ input' = <<>>
    /\ loading' = TRUE
    /\ error' = Null
    /\ UNCHANGED <<route, conversationId, activeSubMenu, loads, hist>>

\* handleSend up to the call of sendChatMessageStream, whose first await
\* (getAccessToken) resumes before any other event: the request is sent
\* with the conversationId of this render.  Date.now() of two submits differ.
handleSend ==
    /\ Trim(input) # <<>>
    /\ ~loading
    /\ Len(streams) < MaxStreams
    /\ Ops < MaxOps
    /\ LET streamingMessageId == clock + 1
       IN /\ messages' = SubmitMessages(messages, input, streamingMessageId)
          /\ clock' = streamingMessageId
          /\ streams' = Append(streams, NewStream(streamingMessageId, input))
    /\ input' = <<>>
    /\ loading' = TRUE
    /\ error' = Null
    /\ UNCHANGED <<route, conversationId, activeSubMenu, loads, hist>>

\* handleNewChat without `setConversationId(null)`
handleNewChatKeepsId ==
    /\ hist.resets < MaxResets
    /\ Ops < MaxOps
    /\ messages' = <<Greeting>>
    /\ error' = Null
    /\ activeSubMenu' = "current"
    /\ streams' = [i \in 1..Len(streams) |->
                      IF streams[i].pc # "returned"
                      THEN [streams[i] EXCEPT !.superseded = TRUE]
                      ELSE streams[i]]
    /\ hist' = [hist EXCEPT !.resets = @ + 1]
    /\ UNCHANGED <<route, input, loading, clock, loads, conversationId>>

\* handleNewChat, from the sidebar button or from deleteConversation when the
\* conversation deleted is the current one
handleNewChat ==
    /\ hist.resets < MaxResets
    /\ Ops < MaxOps
    /\ messages' = <<Greeting>>
    /\ conversationId' = Null
    /\ error' = Null
    /\ activeSubMenu' = "current"
    /\ streams' = [i \in 1..Len(streams) |->
                      IF streams[i].pc # "returned"
                      THEN [streams[i] EXCEPT !.superseded = TRUE]
                      ELSE streams[i]]
    /\ hist' = [hist EXCEPT !.resets = @ + 1]
    /\ UNCHANGED <<route, input, loading, clock, loads>>

\* loadConversation up to its await.  The conversation is clicked in the
\* history panel, which the user opened through the sidebar
\* (handleSubMenuClick('history')).
loadConversationStart(convId) ==
    /\ hist.loadsStarted < MaxLoads
    /\ Ops < MaxOps
    /\ activeSubMenu' = "history"
    /\ loading' = TRUE
    /\ loads' = Append(loads, convId)
    /\ hist' = [hist EXCEPT !.loadsStarted = @ + 1]
    /\ UNCHANGED <<route, messages, input, error, conversationId, clock, streams>>

RemoveAt(q, k) == SubSeq(q, 1, k - 1) \o SubSeq(q, k + 1, Len(q))

\* LoadedMessage with `citations: msg.citations`
LoadedMessageRaw(msg) ==
    [id |-> 0, role |-> msg.role, content |-> msg.content,
     isStreaming |-> FALSE, isError |-> FALSE,
     citations |-> msg.citations]

\* (data.messages || []).map(msg => ({ role, content, timestamp, citations: msg.citations || [] }))
LoadedMessage(msg) ==
    [id |-> 0, role |-> msg.role, content |-> msg.content,
     isStreaming |-> FALSE, isError |-> FALSE,
     citations |-> IF msg.citations = None THEN Some(<<>>) ELSE msg.citations]

\* loadConversation after getConversationHistory resolved with data
loadConversationDone(k, stored) ==
    /\ k \in 1..Len(loads)
    /\ LET loadedMessages == [j \in 1..Len(stored) |-> LoadedMessage(stored[j])]
       IN IF Len(loadedMessages) > 0
          THEN /\ messages' = loadedMessages
               /\ conversationId' = loads[k]
               /\ activeSubMenu' = "current"
          ELSE UNCHANGED <<messages, conversationId, activeSubMenu>>
    /\ loading' = FALSE
    /\ loads' = RemoveAt(loads, k)
    /\ UNCHANGED <<route, input, error, clock, streams, hist>>

\* loadConversation after getConversationHistory rejected
loadConversationFailed(k) ==
    /\ k \in 1..Len(loads)
    /\ error' = FailedLoadText
    /\ loading' = FALSE
    /\ loads' = RemoveAt(loads, k)
    /\ UNCHANGED <<route, messages, input, conversationId, activeSubMenu, clock, streams, hist>>

-----------------------------------------------------------------------------
(* Steps of sendChatMessageStream *)

\* the callbacks `calls` of stream i run, and the stream becomes s2; stale
\* records that a superseded stream called back after a later submit
Deliver(i, s2, calls) ==
    \E P2 \in {ApplyCalls(Page, streams[i], calls)} :
       /\ messages' = P2.messages
       /\ conversationId' = P2.conversationId
       /\ loading' = P2.loading
       /\ error' = P2.error
       /\ streams' = [streams EXCEPT
                         ![i] = [s2 EXCEPT !.stale = @ \/
                                   /\ s2.superseded
                                   /\ calls # <<>>
                                   /\ \E j \in (i + 1)..Len(streams) :
                                         ~streams[j].superseded]]
       /\ UNCHANGED <<route, input, activeSubMenu, clock, loads, hist>>

\* Catch that reports the failure through onDone
CatchAsDone(i, message) ==
    LET s == streams[i]
        call == DoneCall(s.d, s.read)
    IN Deliver(i, [s EXCEPT !.pc = "returned", !.failed = TRUE,
                            !.d.calls = Append(@, call), !.d.returned = TRUE],
               <<call>>)

\* the function leaves through `catch (error) { onError?.(error) }`
Catch(i, message) ==
    LET s == streams[i]
        call == ErrorCall(message, s.read)
    IN Deliver(i, [s EXCEPT !.pc = "returned", !.failed = TRUE,
                            !.d.calls = Append(@, call), !.d.returned = TRUE],
               <<call>>)

\* fetch rejects
FetchFail(i) ==
    /\ i \in 1..Len(streams)
    /\ streams[i].pc = "fetch"
    /\ Catch(i, FetchErrorText)

\* !response.ok: throw new Error(errorData.detail || `API error: ${response.status}`)
FetchNotOk(i, detail) ==
    /\ i \in 1..Len(streams)
    /\ streams[i].pc = "fetch"
    /\ Catch(i, IF detail # Null THEN detail ELSE ApiErrorPrefix \o StatusText)

\* response.ok: the reader is taken; resp is what the backend will write
FetchOk(i, resp) ==
    /\ i \in 1..Len(streams)
    /\ streams[i].pc = "fetch"
    /\ Deliver(i, [streams[i] EXCEPT !.pc = "read", !.response = resp], <<>>)

\* reader.read() resolves with the bytes up to offset c
ReadData(i) ==
    /\ i \in 1..Len(streams)
    /\ streams[i].pc = "read"
    /\ \E c \in CutsOf(streams[i]) :
          /\ c > streams[i].read
          /\ LET s == streams[i]
                 body == BodyOf(s)
                 chunk == SubSeq(body, s.read + 1, c)
             IN \E d2 \in {ProcessChunk(chunk, s.d, s.read)} :
                    Deliver(i, [s EXCEPT !.d = d2, !.read = c,
                                         !.wholeLines = @ /\ body[c] = "\n",
                                         !.pc = IF d2.returned THEN "returned" ELSE "read"],
                            SubSeq(d2.calls, Len(s.d.calls) + 1, Len(d2.calls)))

\* ReadDone that reports the end of the body through onError
ReadDoneAsError(i) ==
    /\ i \in 1..Len(streams)
    /\ streams[i].pc = "read"
    /\ streams[i].read = Len(BodyOf(streams[i]))
    /\ LET s == streams[i]
           call == ErrorCall(ReadErrorText, s.read)
       IN Deliver(i, [s EXCEPT !.pc = "returned",
                               !.d.calls = Append(@, call), !.d.returned = TRUE],
                  <<call>>)

\* reader.read() resolves with done: break, then onDone?.(fullText, citations, convId)
ReadDone(i) ==
    /\ i \in 1..Len(streams)
    /\ streams[i].pc = "read"
    /\ streams[i].read = Len(BodyOf(streams[i]))
    /\ LET s == streams[i]
           call == DoneCall(s.d, s.read)
       IN Deliver(i, [s EXCEPT !.pc = "returned",
                               !.d.calls = Append(@, call), !.d.returned = TRUE],
                  <<call>>)

\* reader.read() rejects
ReadFail(i) ==
    /\ i \in 1..Len(streams)
    /\ streams[i].pc = "read"
    /\ Catch(i, ReadErrorText)

StreamStep(i, responses, details) ==
    \/ FetchFail(i)
    \/ \E detail \in details : FetchNotOk(i, detail)
    \/ \E resp \in responses : FetchOk(i, resp)
    \/ ReadData(i)
    \/ ReadDone(i)
    \/ ReadFail(i)

-----------------------------------------------------------------------------
(* Specification *)

Next ==
    \/ \E v \in Inputs : SetInput(v)
    \/ handleSend
    \/ handleNewChat
    \/ \E convId \in ConvIds : loadConversationStart(convId)
    \/ \E k \in 1..MaxLoads + 1, stored \in Histories : loadConversationDone(k, stored)
    \/ \E k \in 1..MaxLoads + 1 : loadConversationFailed(k)
    \/ \E i \in 1..MaxStreams : StreamStep(i, Responses, Details)

Spec == Init /\ [][Next]_vars

\* One call of sendChatMessageStream on its own: the page right after a
\* submit, and a response body that the transport cuts at any offset.
InitStream ==
    /\ messages = <<Greeting, UserMessage(<<"q">>), Placeholder(1)>>
    /\ input = <<>>
    /\ loading = TRUE
    /\ error = Null
    /\ conversationId = Null
    /\ activeSubMenu = "current"
    /\ clock = 1
    /\ streams = <<NewStream(1, <<"q">>)>>
    /\ loads = <<>>
    /\ hist = [resets |-> 0, loadsStarted |-> 0]
    /\ route = NewRoute

NextStream == StreamStep(1, StreamResponses, StreamDetails)

SpecStream == InitStream /\ [][NextStream]_vars

\* a pending fetch or read of a stream or of a history load is answered
Answered ==
    \/ \E i \in 1..MaxStreams : StreamStep(i, Responses, Details)
    \/ \E k \in 1..MaxLoads + 1 :
          \/ \E stored \in Histories : loadConversationDone(k, stored)
          \/ loadConversationFailed(k)

\* Every pending fetch and read is eventually answered: as long as one is
\* pending, one of them resolves.
FairSpec == Spec /\ WF_vars(Answered)

-----------------------------------------------------------------------------
(* Properties *)

Streams == 1..Len(streams)

Returned(i) == streams[i].pc = "returned"

\* the callbacks of a call, without the offset of the line
Args(call) ==
    [cb |-> call.cb, text |-> call.text, fullText |-> call.fullText,
     citations |-> call.citations, convId |-> call.convId]

ArgsOf(calls) == [k \in 1..Len(calls) |-> Args(calls[k])]

LastCall(i) == streams[i].d.calls[Len(streams[i].d.calls)]

\* the callbacks of a call whose whole body arrives in a single read
SingleReadCalls(body) ==
    LET d == ProcessChunk(body, NewDecoder, 0)
    IN IF d.returned THEN d.calls ELSE Append(d.calls, DoneCall(d, Len(body)))

\* t occurs in u
Contains(u, t) ==
    \E k \in 0..(Len(u) - Len(t)) : SubSeq(u, k + 1, k + Len(t)) = t

\* the placeholders of stream i that are in the messages list
PlaceholdersOf(i) ==
    {k \in 1..Len(messages) : messages[k].id = streams[i].id}

\* C1: however the body is cut into reads, the callbacks and their
\* arguments are those of the single read of the whole body.
C1_SplitInvariance ==
    \A i \in Streams :
        (Returned(i) /\ ~streams[i].failed)
            => ArgsOf(streams[i].d.calls) = ArgsOf(SingleReadCalls(BodyOf(streams[i])))

\* C2: a stream that delivered text and then ends in an error leaves the
\* placeholder as an error, not streaming, with the streamed text still in
\* its content.
C2_PartialTextKept ==
    \A i \in Streams :
        (Returned(i) /\ LastCall(i).cb = "onError" /\ streams[i].d.fullText # <<>>)
            => \A k \in PlaceholdersOf(i) :
                   /\ messages[k].isError
                   /\ ~messages[k].isStreaming
                   /\ Contains(messages[k].content, streams[i].d.fullText)

\* C3: a callback of a stream that a new chat superseded leaves the
\* messages list as it is.
C3_StaleStreamInert ==
    [][\A i \in Streams :
          (streams[i].superseded /\ streams'[i] # streams[i])
              => messages' = messages]_vars

\* a superseded stream has called back after a submit that followed the new
\* chat, and the list is the greeting plus the two messages of that submit
C3_Witness ==
    \E i, j \in Streams :
        /\ streams[i].stale
        /\ ~streams[j].superseded
        /\ ~Returned(j)
        /\ messages = <<Greeting, UserMessage(streams[j].query), Placeholder(streams[j].id)>>

\* the first [CONV_ID] frame of a sequence of frames, Null when it has none
RECURSIVE FirstConvId(_)
FirstConvId(frames) ==
    IF frames = <<>> THEN Null
    ELSE IF Head(frames).kind = "conv" THEN Head(frames).payload
    ELSE FirstConvId(Tail(frames))

\* C4: the identifier in force after a stream of a transcript without
\* identifier completed is the first one that the stream received.
C4_FirstIdentifierWins ==
    \A i \in Streams :
        ( /\ Returned(i)
          /\ ~streams[i].failed
          /\ streams[i].wholeLines
          /\ LastCall(i).cb = "onDone"
          /\ streams[i].read = Len(BodyOf(streams[i]))
          /\ streams[i].conversationId = Null
          /\ FirstConvId(FramesOf(streams[i])) # Null )
            => conversationId = FirstConvId(FramesOf(streams[i]))

\* C5: at most one message is streaming, and it is the last of the list.
C5_OneTrailingStreaming ==
    \A k \in 1..Len(messages) : messages[k].isStreaming => k = Len(messages)

\* C6: the callbacks of a call are onChunk calls in the order of their
\* lines, accumulating the text, followed by exactly one terminal call when
\* the call has returned and by none before.
C6_OneTerminalCall ==
    \A i \in Streams :
        LET calls == streams[i].d.calls
        IN /\ Returned(i) => (calls # <<>> /\ LastCall(i).cb \in {"onDone", "onError"})
           /\ ~Returned(i) => (calls = <<>> \/ LastCall(i).cb = "onChunk")
           /\ \A k \in 1..(Len(calls) - 1) :
                  /\ calls[k].cb = "onChunk"
                  /\ calls[k + 1].at > calls[k].at
           /\ \A k \in 1..Len(calls) :
                  calls[k].cb = "onChunk" =>
                      calls[k].fullText =
                          (IF k = 1 THEN <<>> ELSE calls[k - 1].fullText) \o calls[k].text

\* a call returned at [DONE], after a text chunk, with a line of the body
\* still unread
C6_Witness ==
    \E i \in Streams :
        /\ Returned(i)
        /\ Len(streams[i].d.calls) >= 2
        /\ LastCall(i).cb = "onDone"
        /\ streams[i].read < Len(BodyOf(streams[i]))

\* no message is streaming and the page is not loading
Quiescent ==
    /\ ~loading
    /\ \A k \in 1..Len(messages) : ~messages[k].isStreaming

\* C7: when every pending fetch and read is answered, the page always comes
\* back to a state without streaming message and without loading.
C7_EventuallySealed == []<>Quiescent

\* a new chat was made in the middle of a stream that has since returned
C7_Witness ==
    /\ Quiescent
    /\ \E i \in Streams : streams[i].superseded /\ Returned(i)

WellFormed(frames) ==
    /\ frames # <<>>
    /\ frames[Len(frames)].kind = "done"
    /\ \A k \in 1..(Len(frames) - 1) : frames[k].kind \in {"text", "citations", "conv"}

\* the text deltas of the frames, decoded and joined in their order
RECURSIVE ExpectedContent(_)
ExpectedContent(frames) ==
    IF frames = <<>> THEN <<>>
    ELSE (IF Head(frames).kind = "text" THEN DecodeNewlines(Head(frames).payload)
          ELSE <<>>) \o ExpectedContent(Tail(frames))

Completed(i) ==
    /\ Returned(i)
    /\ ~streams[i].failed
    /\ streams[i].wholeLines
    /\ WellFormed(FramesOf(streams[i]))

\* C8: whole lines of text deltas, citations and identifiers ended by
\* [DONE] leave the placeholder sealed, not an error, with the decoded
\* deltas joined in their order as content.
C8_Completeness ==
    \A i \in Streams :
        Completed(i) =>
            \A k \in PlaceholdersOf(i) :
                /\ ~messages[k].isStreaming
                /\ ~messages[k].isError
                /\ messages[k].content = ExpectedContent(FramesOf(streams[i]))

\* a completed stream of two deltas, the first with an escaped line feed
C8_Witness ==
    \E i \in Streams :
        /\ Completed(i)
        /\ Len(streams[i].d.calls) = 3
        /\ \E k \in PlaceholdersOf(i) : messages[k].content = <<"H", "i", "\n", "x">>

\* C9: a streaming message carries no citations.
C9_NoCitationsWhileStreaming ==
    \A k \in 1..Len(messages) :
        messages[k].isStreaming => messages[k].citations = None

\* a placeholder still streaming, with text, whose stream already holds the
\* citations of a [CITATIONS] frame
C9_Witness ==
    \E i \in Streams :
        /\ ~Returned(i)
        /\ streams[i].d.citations = Some(<<"1">>)
        /\ \E k \in PlaceholdersOf(i) :
               messages[k].isStreaming /\ messages[k].content # <<>>

FailureReasons ==
    {FetchErrorText, ReadErrorText, ApiErrorPrefix \o StatusText} \cup (StreamDetails \ {Null})

\* C10: a non-success status, a rejected fetch or a rejected read is
\* reported through onError with its reason, never through onDone, and the
\* placeholder ends as an error and not streaming.
C10_FailureReported ==
    \A i \in Streams :
        streams[i].failed =>
            /\ Returned(i)
            /\ streams[i].d.calls # <<>>
            /\ LastCall(i).cb = "onError"
            /\ LastCall(i).text \in FailureReasons
            /\ \A k \in 1..Len(streams[i].d.calls) : streams[i].d.calls[k].cb # "onDone"
            /\ \A k \in PlaceholdersOf(i) :
                   /\ messages[k].isError
                   /\ ~messages[k].isStreaming
                   /\ Contains(messages[k].content, LastCall(i).text)

\* a read failed after text had been streamed
C10_Witness ==
    \E i \in Streams :
        /\ streams[i].failed
        /\ streams[i].read > 0
        /\ streams[i].d.fullText # <<>>
        /\ PlaceholdersOf(i) # {}

\* C11: an identifier that the stream of a transcript without identifier
\* delivered is the identifier of the transcript once the stream has
\* terminated, however it terminated.
C11_IdentifierKept ==
    \A i \in Streams :
        (/\ Returned(i)
         /\ streams[i].wholeLines
         /\ streams[i].conversationId = Null
         /\ streams[i].d.convId # Null)
            => conversationId = streams[i].d.convId

\* C12: no step of a stream that a new chat superseded sets the conversation
\* identifier: it stays as the new chat and the later submits left it.
C12_StaleStreamKeepsIdUnset ==
    [][\A i \in Streams :
          (streams[i].superseded /\ streams'[i] # streams[i])
              => conversationId' = conversationId]_vars

\* C13: a new chat leaves the page idle: the input is enabled and a submit
\* is accepted right after it, whatever was in flight.
C13_NewChatIsIdle ==
    [][handleNewChat => ~loading']_vars

\* the transcript is replaced: a new chat, or a history load that found
\* stored messages
Replaces ==
    \/ handleNewChat
    \/ \E k \in 1..Len(loads), stored \in Histories :
          stored # <<>> /\ loadConversationDone(k, stored)

\* C14: an identifier that is set changes only in a step that replaces the
\* transcript.
C14_IdentifierImmutable ==
    [][(conversationId # Null /\ conversationId' # conversationId)
          => Replaces]_vars

\* a [CITATIONS] payload that JSON.parse rejects
Unparsable(frame) ==
    /\ frame.kind = "citations"
    /\ ~JsonIsArray(frame.payload)
    /\ frame.payload # JsonNull

\* the frames end with [DONE], hold a payload that cannot be parsed and no
\* citation list that can
MalformedCitations(frames) ==
    /\ WellFormed(frames)
    /\ \E k \in 1..Len(frames) : Unparsable(frames[k])
    /\ \A k \in 1..Len(frames) :
           frames[k].kind = "citations" => ~JsonIsArray(frames[k].payload)

\* C15: a stream with a [CITATIONS] payload that cannot be parsed, ended by
\* [DONE], completes through onDone and never onError; the message is not an
\* error, has an empty citation list and the text of all the deltas, those
\* that follow the payload included.
C15_CitationResilience ==
    \A i \in Streams :
        (Completed(i) /\ MalformedCitations(FramesOf(streams[i]))) =>
            /\ LastCall(i).cb = "onDone"
            /\ LastCall(i).citations = Some(<<>>)
            /\ \A k \in 1..Len(streams[i].d.calls) : streams[i].d.calls[k].cb # "onError"
            /\ \A k \in PlaceholdersOf(i) :
                   /\ ~messages[k].isError
                   /\ ~messages[k].isStreaming
                   /\ messages[k].citations = Some(<<>>)
                   /\ messages[k].content = ExpectedContent(FramesOf(streams[i]))

\* the stream with the payload `[x` completed, a delta after the payload
C15_Witness ==
    \E i \in Streams :
        /\ Completed(i)
        /\ MalformedCitations(FramesOf(streams[i]))
        /\ \E k \in PlaceholdersOf(i) : messages[k].content = <<"y", "z">>

\* what follows the sentinel [ERROR] in the payload of the first [ERROR]
\* line of the frames
RECURSIVE ErrorRemainder(_)
ErrorRemainder(frames) ==
    IF Head(frames).kind = "error"
    THEN Slice(Head(frames).line, Len(DataPrefix) + Len(ErrorTag))
    ELSE ErrorRemainder(Tail(frames))

\* the call returned at an [ERROR] line
EndedAtErrorLine(i) ==
    /\ Returned(i)
    /\ ~streams[i].failed
    /\ streams[i].wholeLines
    /\ LastCall(i).cb = "onError"

\* C16: the Error of an [ERROR] line carries exactly what follows the
\* sentinel in the payload, with or without a leading blank, and the
\* content of the message shows it.
C16_ErrorMessageExact ==
    \A i \in Streams :
        EndedAtErrorLine(i) =>
            LET m == ErrorRemainder(FramesOf(streams[i]))
            IN /\ LastCall(i).text = m
               /\ \A k \in PlaceholdersOf(i) : Contains(messages[k].content, m)

\* t begins with u
IsPrefix(u, t) == Len(u) <= Len(t) /\ SubSeq(t, 1, Len(u)) = u

\* C17: in every step, the content of a placeholder that is streaming and
\* stays in the list extends the content it had, the step that seals it
\* included.
C17_MonotoneContent ==
    [][\A k \in 1..Len(messages), k2 \in 1..Len(messages') :
          (/\ messages[k].id # 0
           /\ messages[k].isStreaming
           /\ messages'[k2].id = messages[k].id)
              => IsPrefix(messages[k].content, messages'[k2].content)]_vars

\* C18: a new chat leaves exactly one message, the greeting of the
\* assistant, not streaming, not an error and without citations, and no
\* conversation identifier.
C18_NewChatResult ==
    [][hist'.resets # hist.resets =>
          /\ Len(messages') = 1
          /\ messages'[1].role = "assistant"
          /\ messages'[1].content = GreetingText
          /\ ~messages'[1].isStreaming
          /\ ~messages'[1].isError
          /\ messages'[1].citations = None
          /\ conversationId' = Null]_vars

\* a new chat made after a stream had completed and set the identifier
C18_Witness ==
    /\ hist.resets > 0
    /\ messages = <<Greeting>>
    /\ conversationId = Null
    /\ \E i \in Streams :
          /\ Returned(i)
          /\ ~streams[i].superseded
          /\ streams[i].conversationId = Null
          /\ LastCall(i).cb = "onDone"
          /\ LastCall(i).convId # Null

\* the messages list shows the stored messages, in their order
ShowsStored(list, stored) ==
    /\ Len(list) = Len(stored)
    /\ \A j \in 1..Len(stored) :
           /\ list[j].role = stored[j].role
           /\ list[j].content = stored[j].content
           /\ list[j].citations =
                  (IF stored[j].citations = None THEN Some(<<>>) ELSE stored[j].citations)
           /\ ~list[j].isStreaming

\* C20: a history load that returns stored messages replaces the list by
\* them and sets the identifier to the conversation loaded, and opens no
\* stream; one that returns none, or fails, leaves both as they are.
C20_LoadConversation ==
    [][\A k \in 1..Len(loads) :
          /\ \A stored \in Histories :
                 loadConversationDone(k, stored) =>
                     IF stored # <<>>
                     THEN /\ ShowsStored(messages', stored)
                          /\ conversationId' = loads[k]
                          /\ streams' = streams
                     ELSE /\ messages' = messages
                          /\ conversationId' = conversationId
          /\ loadConversationFailed(k) =>
                 /\ messages' = messages
                 /\ conversationId' = conversationId]_vars

\* the stored conversation is shown after a load made in the middle of a
\* stream; its user message had no citations
C20_Witness ==
    /\ loads = <<>>
    /\ hist.loadsStarted > 0
    /\ conversationId \in ConvIds
    /\ Len(messages) = 2
    /\ messages[1].role = "user"
    /\ messages[1].citations = Some(<<>>)
    /\ messages[2].citations = Some(<<"1">>)
    /\ \E i \in Streams : ~Returned(i)

-----------------------------------------------------------------------------
(* The page that submits through sendChatMessage (no streaming) *)

PlainGreetingText == <<"H", "e", "l", "l", "o", "!", " ", "I", " ", "c", "a", "n", " ", "h", "e", "l", "p", " ", "y", "o", "u", " ", "s", "e", "a", "r", "c", "h", " ", "t", "h", "r", "o", "u", "g", "h", " ", "a", "c", "a", "d", "e", "m", "i", "c", " ", "r", "e", "s", "e", "a", "r", "c", "h", " ", "p", "a", "p", "e", "r", "s", ".", " ", "A", "s", "k", " ", "m", "e", " ", "a", "n", "y", "t", "h", "i", "n", "g", "!">>

PlainGreeting ==
    [id |-> 0, role |-> "assistant", content |-> PlainGreetingText,
     isStreaming |-> FALSE, isError |-> FALSE, citations |-> None]

\* the citation list of the last [CITATIONS] frame that holds one, None
\* when the frames hold none
RECURSIVE CitationsOf(_)
CitationsOf(frames) ==
    IF frames = <<>> THEN None
    ELSE LET last == frames[Len(frames)]
         IN IF last.kind = "citations" /\ JsonIsArray(last.payload)
            THEN Some(JsonArray(last.payload))
            ELSE CitationsOf(SubSeq(frames, 1, Len(frames) - 1))

\* data of sendChatMessage: the answer that the backend streams as `frames`,
\* given in one piece; a field is absent when the backend has no value
AnswerOf(frames) ==
    [answer |-> ExpectedContent(frames),
     citations |-> CitationsOf(frames),
     conversation_id |-> FirstConvId(frames)]

\* the answers of the backend, by the name of the response that streams them
PlainResponses == {"answerLines", "short", "bare"}

\* what the user types in the input of this page
PlainInputs == Inputs \cup {<<"r">>}

\* err.message of a rejected sendChatMessage
PlainFailures == {FetchErrorText, ApiErrorPrefix \o StatusText}

\* PlainAssistantMessage with `citations: data.citations`
PlainAssistantMessageRaw(data) ==
    [id |-> 0, role |-> "assistant", content |-> data.answer,
     isStreaming |-> FALSE, isError |-> FALSE,
     citations |-> data.citations]

\* { role: 'assistant', content: data.answer, citations: data.citations || [], ... }
PlainAssistantMessage(data) ==
    [id |-> 0, role |-> "assistant", content |-> data.answer,
     isStreaming |-> FALSE, isError |-> FALSE,
     citations |-> IF data.citations = None THEN Some(<<>>) ELSE data.citations]

\* { role: 'assistant', content: `Sorry, ... ${err.message}. Please try again.`, isError: true }
PlainErrorMessage(message) ==
    [id |-> 0, role |-> "assistant",
     content |-> SorryPrefix \o message \o SorrySuffix,
     isStreaming |-> FALSE, isError |-> TRUE, citations |-> None]

InitPlain ==
    /\ messages = <<PlainGreeting>>
    /\ input = <<>>
    /\ loading = FALSE
    /\ error = Null
    /\ conversationId = Null
    /\ activeSubMenu = "current"
    /\ clock = 0
    /\ streams = <<>>
    /\ loads = <<>>
    /\ hist = [resets |-> 0, loadsStarted |-> 0]
    /\ route = NewRoute

\* handleSend up to `await chatService.sendChatMessage(...)`; the request
\* carries the conversationId of this render
handleSendPlain ==
    /\ Trim(input) # <<>>
    /\ ~loading
    /\ Len(streams) < MaxStreams
    /\ Ops < MaxOps
    /\ messages' = Append(messages, UserMessage(input))
    /\ input' = <<>>
    /\ loading' = TRUE
    /\ error' = Null
    /\ streams' = Append(streams, NewStream(0, input))
    /\ UNCHANGED <<route, conversationId, activeSubMenu, clock, loads, hist>>

\* sendChatMessage resolved with the answer that response resp carries
PlainResolve(i, resp) ==
    /\ i \in 1..Len(streams)
    /\ streams[i].pc = "fetch"
    /\ LET data == AnswerOf(ResponseNamed(resp).frames)
       IN /\ conversationId' =
                 IF data.conversation_id # Null /\ streams[i].conversationId = Null
                 THEN data.conversation_id ELSE conversationId
          /\ messages' = Append(messages, PlainAssistantMessage(data))
    /\ loading' = FALSE
    /\ streams' = [streams EXCEPT ![i].pc = "returned", ![i].response = resp]
    /\ UNCHANGED <<route, input, error, activeSubMenu, clock, loads, hist>>

\* sendChatMessage rejected: fetch failed, or the response was not ok
PlainReject(i, message) ==
    /\ i \in 1..Len(streams)
    /\ streams[i].pc = "fetch"
    /\ error' = IF message # <<>> THEN message ELSE FailedResponseText
    /\ messages' = Append(messages, PlainErrorMessage(message))
    /\ loading' = FALSE
    /\ streams' = [streams EXCEPT ![i].pc = "returned", ![i].failed = TRUE]
    /\ UNCHANGED <<route, input, conversationId, activeSubMenu, clock, loads, hist>>

NextPlain ==
    \/ \E v \in PlainInputs : SetInput(v)
    \/ handleSendPlain
    \/ \E i \in 1..MaxStreams, resp \in PlainResponses : PlainResolve(i, resp)
    \/ \E i \in 1..MaxStreams, message \in PlainFailures : PlainReject(i, message)

SpecPlain == InitPlain /\ [][NextPlain]_vars

\* The streaming page for the same submit: the list `prev` before the
\* submit, the placeholder given the identifier 1, and the callbacks `calls`
\* of sendChatMessageStream applied in their order.
StreamingFinal(prev, s, calls) ==
    ApplyCalls([messages |-> SubmitMessages(prev, s.query, 1),
                conversationId |-> conversationId,
                loading |-> TRUE, error |-> Null],
               [s EXCEPT !.id = 1], calls)

\* two transcripts show the same messages
Equivalent(list1, list2) ==
    /\ Len(list1) = Len(list2)
    /\ \A k \in 1..Len(list1) :
           /\ list1[k].role = list2[k].role
           /\ list1[k].content = list2[k].content
           /\ list1[k].citations = list2[k].citations
           /\ list1[k].isStreaming = list2[k].isStreaming
           /\ list1[k].isError = list2[k].isError

\* C19: the submit through sendChatMessage leaves the transcript and the
\* identifier that the streaming submit leaves for the same answer sent as
\* frames ended by [DONE]: the user message, then one assistant message with
\* the answer and its citations, not streaming and not an error; and for the
\* same failure both leave one assistant message that is an error.
C19_PlainMatchesStreaming ==
    [][\A i \in Streams :
          LET prev == SubSeq(messages, 1, Len(messages) - 1)
          IN /\ \A resp \in PlainResponses :
                    PlainResolve(i, resp) =>
                        LET frames == ResponseNamed(resp).frames
                            S == StreamingFinal(prev, streams[i],
                                                SingleReadCalls(Body(frames)))
                            last == messages'[Len(messages')]
                        IN /\ Equivalent(messages', S.messages)
                           /\ conversationId' = S.conversationId
                           /\ last.role = "assistant"
                           /\ last.content = ExpectedContent(frames)
                           /\ ~last.isStreaming /\ ~last.isError
             /\ \A message \in PlainFailures :
                    PlainReject(i, message) =>
                        LET S == StreamingFinal(prev, streams[i],
                                                <<ErrorCall(message, 0)>>)
                        IN /\ Equivalent(messages', S.messages)
                           /\ conversationId' = S.conversationId
                           /\ messages'[Len(messages')].isError]_vars

\* a second submit was answered with text, citations and an identifier,
\* after a first one had set the identifier
C19_Witness ==
    /\ Len(streams) = 2
    /\ \A i \in Streams : Returned(i) /\ ~streams[i].failed
    /\ streams[1].response = "short"
    /\ streams[2].response = "answerLines"
    /\ conversationId = <<"a">>
    /\ Len(messages) = 5
    /\ messages[5].content = <<"H", "i", "\n", "x">>
    /\ messages[5].citations = Some(<<"1">>)
    /\ messages[3].citations = Some(<<>>)

-----------------------------------------------------------------------------
(* Text deltas *)

\* the encoding of the backend: every line feed written as backslash, n
RECURSIVE EncodeNewlines(_)
EncodeNewlines(t) ==
    IF t = <<>> THEN <<>>
    ELSE (IF Head(t) = "\n" THEN <<"\\", "n">> ELSE <<Head(t)>>)
             \o EncodeNewlines(Tail(t))

\* t holds a backslash followed by n
HasEscape(t) == \E k \in 1..(Len(t) - 1) : t[k] = "\\" /\ t[k + 1] = "n"

\* number of escapes of t, counted from the left as replace does
RECURSIVE EscapeCount(_)
EscapeCount(t) ==
    IF Len(t) < 2 THEN 0
    ELSE IF t[1] = "\\" /\ t[2] = "n" THEN 1 + EscapeCount(SubSeq(t, 3, Len(t)))
    ELSE EscapeCount(Tail(t))

\* the frame whose line begins at offset at of the body
FrameAt(frames, at) ==
    frames[CHOOSE f \in 1..Len(frames) : LineEnd(frames, f - 1) = at]

\* C21: the text that onChunk receives for the line of a text delta is the
\* payload with every escape replaced by one line feed and nothing else
\* altered: it holds no escape, is shorter by one character per escape, and
\* encoding its line feeds gives the payload back; the message shows the
\* deltas joined.  Identifiers are kept as they were received, escapes
\* included.
C21_NewlineDecoding ==
    \A i \in Streams :
        streams[i].wholeLines =>
            LET calls == streams[i].d.calls
                frames == FramesOf(streams[i])
            IN /\ \A k \in 1..Len(calls) :
                      calls[k].cb = "onChunk" =>
                          LET frame == FrameAt(frames, calls[k].at)
                          IN /\ frame.kind = "text"
                             /\ ~HasEscape(calls[k].text)
                             /\ Len(calls[k].text) =
                                    Len(frame.payload) - EscapeCount(frame.payload)
                             /\ EncodeNewlines(calls[k].text) = frame.payload
               /\ (calls # <<>> /\ LastCall(i).cb = "onChunk") =>
                      \A k \in PlaceholdersOf(i) :
                          messages[k].content = LastCall(i).fullText
               /\ streams[i].d.convId # Null =>
                      \E f \in 1..Len(frames) :
                          /\ frames[f].kind = "conv"
                          /\ frames[f].payload = streams[i].d.convId

\* a delta with two escapes and a backslash of its own is shown decoded,
\* after an identifier that holds an escape
C21_Witness ==
    \E i \in Streams :
        /\ streams[i].wholeLines
        /\ streams[i].d.convId = <<"a", "\\", "n">>
        /\ \E k \in PlaceholdersOf(i) :
               messages[k].content = <<"a", "\n", "b", "\\", "\n", "c">>

-----------------------------------------------------------------------------
(* The routes *)

chat == <<messages, input, loading, error, conversationId, activeSubMenu,
          clock, streams, loads, hist>>

\* the address bar, a link or navigate(): the route of a path is shown
Visit(path) ==
    /\ route' = Shown(route, path)
    /\ route' # route
    /\ UNCHANGED chat

\* handleLogin of LoginPage: logout, login, then navigate to /admin for an
\* admin and to /chat for the others; a sign-in that fails leaves the page
handleLogin(signedIn, session) ==
    /\ route.page = "LoginPage"
    /\ IF session = None THEN TRUE
       ELSE session[1].exp * MsPerSecond > route.now
    /\ route' =
           IF ~signedIn THEN LoggedOut(route)
           ELSE LET r == LoggedIn(LoggedOut(route), session)
                    groups == IF session = None THEN {} ELSE session[1].groups
                IN Shown(r, IF "admin" \in groups THEN "/admin" ELSE "/chat")
    /\ route' # route
    /\ UNCHANGED chat

\* handleLogout of ChatPage and of AdminPage
handleLogout ==
    /\ route.page \in {"ChatPage", "AdminPage"}
    /\ route' = Shown(LoggedOut(route), "/login")
    /\ UNCHANGED chat

\* a second passes
Tick ==
    /\ route.now < MaxSeconds * MsPerSecond
    /\ route' = [route EXCEPT !.now = @ + MsPerSecond]
    /\ UNCHANGED chat

NextRoute ==
    \/ \E path \in Paths : Visit(path)
    \/ \E signedIn \in BOOLEAN, session \in Sessions : handleLogin(signedIn, session)
    \/ handleLogout
    \/ Tick

SpecRoute == Init /\ [][NextRoute]_vars

-----------------------------------------------------------------------------
(* The submit *)

\* C23: a stream is opened only by a step taken with an input that is not
\* blank while loading is false, and one stream at a time; that step appends
\* the user message holding the query and then the placeholder, empty and
\* streaming, leaves the earlier messages and the earlier streams as they
\* were, and sets loading.
C23_SubmitFrame ==
    [][Len(streams') # Len(streams) =>
          LET n == Len(messages)
          IN /\ Trim(input) # <<>>
             /\ ~loading
             /\ Len(streams') = Len(streams) + 1
             /\ SubSeq(streams', 1, Len(streams)) = streams
             /\ streams'[Len(streams')].query = input
             /\ streams'[Len(streams')].pc = "fetch"
             /\ Len(messages') = n + 2
             /\ SubSeq(messages', 1, n) = messages
             /\ messages'[n + 1].role = "user"
             /\ messages'[n + 1].content = input
             /\ ~messages'[n + 1].isStreaming
             /\ messages'[n + 2].role = "assistant"
             /\ messages'[n + 2].content = <<>>
             /\ messages'[n + 2].isStreaming
             /\ ~messages'[n + 2].isError
             /\ messages'[n + 2].id = streams'[Len(streams')].id
             /\ loading']_vars

\* a second submit was made after the first answer was sealed: five
\* messages, the last one the placeholder of the stream just opened
C23_Witness ==
    /\ Len(streams) = 2
    /\ streams[2].pc = "fetch"
    /\ loading
    /\ Len(messages) = 5
    /\ ~messages[3].isStreaming
    /\ messages[3].content # <<>>
    /\ messages[4].role = "user"
    /\ messages[5] = Placeholder(streams[2].id)

-----------------------------------------------------------------------------
(* The sentinels *)

\* the first [DONE] or [ERROR] frame of the frames, 0 when there is none
FirstSentinel(frames) ==
    IF \E f \in 1..Len(frames) : frames[f].kind \in {"done", "error"}
    THEN CHOOSE f \in 1..Len(frames) :
             /\ frames[f].kind \in {"done", "error"}
             /\ \A g \in 1..(f - 1) : frames[g].kind \notin {"done", "error"}
    ELSE 0

\* the index of the frame whose line begins at offset at of the body
FrameIndexAt(frames, at) ==
    CHOOSE f \in 1..Len(frames) : LineEnd(frames, f - 1) = at

\* the callbacks of stream i are those of the lines up to the first sentinel:
\* onChunk for a text delta and for nothing else, onDone for [DONE], onError
\* for [ERROR], and nothing for a line after it
UpToSentinel(i) ==
    LET calls == streams[i].d.calls
        frames == FramesOf(streams[i])
        f0 == FirstSentinel(frames)
    IN \A k \in 1..Len(calls) :
           calls[k].at < Len(BodyOf(streams[i])) =>
               LET f == FrameIndexAt(frames, calls[k].at)
               IN /\ f0 # 0 => f <= f0
                  /\ calls[k].cb = "onChunk" <=> frames[f].kind = "text"
                  /\ calls[k].cb = "onDone" <=> frames[f].kind = "done"
                  /\ calls[k].cb = "onError" <=> frames[f].kind = "error"
                  /\ frames[f].kind = "text" =>
                         calls[k].text = DecodeNewlines(frames[f].payload)

\* C24: a call that has returned reads nothing more and calls nothing more,
\* and the callbacks of a call are those of the lines up to the first [DONE]
\* or [ERROR] line, the lines that follow it in the same read left out; a
\* payload that only begins with [DONE] is delivered as a text delta.
C24_SentinelTerminates ==
    [][\A i \in Streams :
          /\ Returned(i) => (streams'[i] = streams[i] /\ messages' = messages)
          /\ (streams'[i].wholeLines /\ ~streams'[i].failed) => UpToSentinel(i)']_vars

\* the body whose first delta begins with [DONE] was read to its end in the
\* read that held the [DONE] line and the line after it
C24_Witness ==
    \E i \in Streams :
        /\ Returned(i)
        /\ streams[i].response = "doneLike"
        /\ streams[i].read = Len(BodyOf(streams[i]))
        /\ Len(streams[i].d.calls) = 3
        /\ streams[i].d.calls[1].text = <<"[", "D", "O", "N", "E", "]", "x">>
        /\ LastCall(i).cb = "onDone"
        /\ LastCall(i).at < streams[i].read - Len(DataPrefix \o DoneTag) - 1

-----------------------------------------------------------------------------
(* Lines without the prefix *)

\* the number of lines of the frames that end at or before offset c
LinesRead(frames, c) ==
    Cardinality({f \in 1..Len(frames) : LineEnd(frames, f) <= c})

IsDataFrame(frame) == frame.kind \notin {"blank", "other"}

\* the lines of the data frames among the frames
RECURSIVE DataLines(_)
DataLines(frames) ==
    IF frames = <<>> THEN <<>>
    ELSE (IF IsDataFrame(Head(frames)) THEN <<Head(frames).line>> ELSE <<>>)
             \o DataLines(Tail(frames))

\* the calls of onChunk among the calls, with their arguments
RECURSIVE ChunkArgs(_)
ChunkArgs(calls) ==
    IF calls = <<>> THEN <<>>
    ELSE (IF Head(calls).cb = "onChunk" THEN <<Args(Head(calls))>> ELSE <<>>)
             \o ChunkArgs(Tail(calls))

\* C25: the lines that do not begin with `data: ` count for nothing: the
\* text, the citations and the identifier accumulated, and the calls of
\* onChunk, are those of the same lines with these lines taken out, and no
\* callback belongs to such a line; the lines after them are processed.
C25_OtherLinesIgnored ==
    \A i \in Streams :
        (streams[i].wholeLines /\ ~streams[i].failed /\ streams[i].response # "") =>
            LET frames == FramesOf(streams[i])
                read == SubSeq(frames, 1, LinesRead(frames, streams[i].read))
                d == ProcessLines(DataLines(read), NewDecoder, 0)
                calls == streams[i].d.calls
            IN /\ streams[i].d.fullText = d.fullText
               /\ streams[i].d.citations = d.citations
               /\ streams[i].d.convId = d.convId
               /\ ChunkArgs(calls) = ChunkArgs(d.calls)
               /\ \A k \in 1..Len(calls) :
                      calls[k].at < Len(BodyOf(streams[i])) =>
                          IsDataFrame(frames[FrameIndexAt(frames, calls[k].at)])

\* the stream with blanks, a comment and `data:[DONE]` in it went on to the
\* delta after them and completed at the [DONE] line
C25_Witness ==
    \E i \in Streams :
        /\ streams[i].response = "noise"
        /\ Returned(i)
        /\ LastCall(i).cb = "onDone"
        /\ LastCall(i).fullText = <<"y", "z">>
        /\ LastCall(i).citations = Some(<<"1">>)
        /\ LastCall(i).convId = <<"a">>

-----------------------------------------------------------------------------
(* The messages that the callbacks leave alone *)

\* stream i took a step: a fetch or a read of it was answered
StreamMoved(i) ==
    \/ streams'[i].pc # streams[i].pc
    \/ streams'[i].read # streams[i].read
    \/ streams'[i].d # streams[i].d

\* C26: a step of a stream keeps the length of the list and every message
\* other than the streaming placeholder of that stream as it was, at its
\* position: the greeting, the user messages, the messages loaded from
\* history, the placeholders of other streams and the sealed messages; and
\* in no step does a sealed message become streaming again.
C26_OnlyOwnPlaceholder ==
    [][messages' # messages =>
          /\ \A i \in Streams :
                 StreamMoved(i) =>
                     /\ Len(messages') = Len(messages)
                     /\ \A k \in 1..Len(messages) :
                            (messages[k].id # streams[i].id \/ ~messages[k].isStreaming)
                                => messages'[k] = messages[k]
          /\ \A k \in 1..Len(messages), k2 \in 1..Len(messages') :
                 (/\ messages[k].id # 0
                  /\ messages'[k2].id = messages[k].id
                  /\ ~messages[k].isStreaming)
                     => ~messages'[k2].isStreaming]_vars

\* the second stream has delivered text to its placeholder, in a list that
\* holds the greeting, two user messages and the sealed answer of the first
C26_Witness ==
    /\ Len(streams) = 2
    /\ ~Returned(2)
    /\ streams[2].d.calls # <<>>
    /\ Len(messages) = 5
    /\ messages[1] = Greeting
    /\ messages[3].id = streams[1].id
    /\ ~messages[3].isStreaming
    /\ messages[3].citations = Some(<<"1">>)
    /\ messages[5].isStreaming
    /\ messages[5].content # <<>>

-----------------------------------------------------------------------------
(* The identifier that a request carries *)

\* stream j belongs to the transcript shown and received an identifier for
\* it: its request carried none and its placeholder is in the list
AssignedIn(j) ==
    /\ PlaceholdersOf(j) # {}
    /\ streams[j].wholeLines
    /\ streams[j].conversationId = Null
    /\ streams[j].d.convId # Null

\* C27: the request of a submit carries the identifier of the transcript
\* shown: none when the transcript is the greeting alone, and the identifier
\* that an earlier stream of the transcript received from the backend when
\* there is one.
C27_RequestCarriesIdentifier ==
    [][Len(streams') > Len(streams) =>
          LET request == streams'[Len(streams')]
          IN /\ request.conversationId = conversationId
             /\ messages = <<Greeting>> => request.conversationId = Null
             /\ \A j \in Streams :
                    (AssignedIn(j) /\ Returned(j))
                        => request.conversationId = streams[j].d.convId]_vars

-----------------------------------------------------------------------------
(* The end of the body *)

\* the call returned after the body ended, no [DONE] or [ERROR] line among
\* its frames
EndedWithoutSentinel(i) ==
    /\ Returned(i)
    /\ ~streams[i].failed
    /\ streams[i].response # ""
    /\ FirstSentinel(FramesOf(streams[i])) = 0

\* C28: a body that ends without a [DONE] or [ERROR] line is reported by
\* one call of onDone, the last call, with the text, the citations and the
\* identifier accumulated, those of the frames, and by no call of onError;
\* the placeholder is sealed with them and is not an error.
C28_EndOfStreamCompletes ==
    \A i \in Streams :
        EndedWithoutSentinel(i) =>
            LET calls == streams[i].d.calls
                frames == FramesOf(streams[i])
            IN /\ calls # <<>>
               /\ LastCall(i).cb = "onDone"
               /\ \A k \in 1..(Len(calls) - 1) : calls[k].cb = "onChunk"
               /\ LastCall(i).fullText = streams[i].d.fullText
               /\ LastCall(i).citations = streams[i].d.citations
               /\ LastCall(i).convId = streams[i].d.convId
               /\ streams[i].wholeLines =>
                      /\ LastCall(i).fullText = ExpectedContent(frames)
                      /\ LastCall(i).citations =
                             (IF CitationsOf(frames) = None THEN Some(<<>>)
                              ELSE CitationsOf(frames))
               /\ \A k \in PlaceholdersOf(i) :
                      /\ ~messages[k].isStreaming
                      /\ ~messages[k].isError
                      /\ messages[k].content = LastCall(i).fullText
                      /\ messages[k].citations = LastCall(i).citations

\* the body of a delta, a blank line and a citation list ended, and the
\* placeholder shows the delta with the citations
C28_Witness ==
    \E i \in Streams :
        /\ EndedWithoutSentinel(i)
        /\ streams[i].read = Len(BodyOf(streams[i]))
        /\ \E k \in PlaceholdersOf(i) :
               /\ messages[k].content = <<"z">>
               /\ messages[k].citations = Some(<<"3">>)
               /\ ~messages[k].isStreaming

-----------------------------------------------------------------------------
(* Several citation batches *)

\* JSON.parse accepts the payload of the frame: a list, or null
Parses(frame) ==
    /\ frame.kind = "citations"
    /\ (JsonIsArray(frame.payload) \/ frame.payload = JsonNull)

\* the citations that a message shows for the last [CITATIONS] frame that
\* JSON.parse accepted: its list, the empty list for null and for no frame
RECURSIVE LastParsed(_)
LastParsed(frames) ==
    IF frames = <<>> THEN <<>>
    ELSE LET last == frames[Len(frames)]
         IN IF Parses(last)
            THEN (IF JsonIsArray(last.payload) THEN JsonArray(last.payload) ELSE <<>>)
            ELSE LastParsed(SubSeq(frames, 1, Len(frames) - 1))

\* the number of [CITATIONS] frames of the frames
CitationFrames(frames) ==
    Cardinality({f \in 1..Len(frames) : frames[f].kind = "citations"})

\* C29: the citations attached when a stream of several [CITATIONS] frames
\* completes are the list of the last frame whose payload JSON.parse
\* accepted, alone: the lists of earlier frames are not in it, and a payload
\* that is rejected after a list leaves that list.
C29_LastBatchWins ==
    \A i \in Streams :
        (Completed(i) /\ CitationFrames(FramesOf(streams[i])) >= 2) =>
            /\ LastCall(i).cb = "onDone"
            /\ \A k \in PlaceholdersOf(i) :
                   messages[k].citations = Some(LastParsed(FramesOf(streams[i])))

\* the stream of the lists [1,2] and [3] and of a rejected payload
\* completed, and the message shows [3]
C29_Witness ==
    \E i \in Streams :
        /\ Completed(i)
        /\ streams[i].response = "batches"
        /\ \E k \in PlaceholdersOf(i) : messages[k].citations = Some(<<"3">>)

-----------------------------------------------------------------------------
(* Loading *)

\* C30: loading is true as long as a stream has not delivered its terminal
\* callback, and while one is in flight loading goes back to false only in
\* the step in which a stream delivers its terminal callback.
C30_LoadingWhileInFlight ==
    [][/\ \A i \in 1..Len(streams') : streams'[i].pc # "returned" => loading'
       /\ (loading /\ ~loading' /\ \E i \in Streams : ~Returned(i))
              => \E i \in Streams : ~Returned(i) /\ streams'[i].pc = "returned"]_vars

====
